---- MODULE Spec2Model ----
(***************************************************************************)
(* Chat backend of src/index.js: the Conversation and Message collections, *)
(* their HTTP handlers, and the Socket.IO connection handlers (rooms,      *)
(* newMessage broadcast, offer / answer / ice-candidate relay).            *)
(*                                                                         *)
(* The server is a single-threaded event loop: every action below is one   *)
(* run-to-completion slice of a handler (from its entry, or from the       *)
(* resumption of an await, to the next await or the end), or one event of  *)
(* the database the handlers wait for.                                     *)
(***************************************************************************)
EXTENDS Integers, Sequences, FiniteSets, Bags, TLC

\* ---------------------------------------------------------------- bounds
MaxDocs == 2       \* documents constructed (Conversations and Messages together)
MaxInflight == 2   \* HTTP requests suspended at an await at the same time
MaxClock == 1      \* the largest reading of Date.now()

\* ---------------------------------------------------------------- inputs
\* Socket ids of the connections that may be opened (socket.id, the peer address).
Sockets == {"s1", "s2"}
\* What uuidv4() returns, in the order of the calls.
UUIDS == <<"u1", "u2", "u3", "u4">>
\* Request bodies of POST /api/conversations ("" is a missing or empty field).
ConversationBodies ==
  { [senderUsername |-> "a", receiverUsername |-> "b"],
    [senderUsername |-> "b", receiverUsername |-> "a"],
    [senderUsername |-> "a", receiverUsername |-> "a"],
    [senderUsername |-> "",  receiverUsername |-> "b"],
    [senderUsername |-> "a", receiverUsername |-> ""] }
\* Request bodies of POST /api/messages.
MessageBodies ==
  { [conversationId |-> "u1", senderUsername |-> "a", receiverUsername |-> "b", message |-> "hi"],
    [conversationId |-> "s2", senderUsername |-> "a", receiverUsername |-> "b", message |-> "hi"],
    [conversationId |-> "",   senderUsername |-> "a", receiverUsername |-> "b", message |-> "hi"],
    [conversationId |-> "u1", senderUsername |-> "",  receiverUsername |-> "b", message |-> "hi"],
    [conversationId |-> "u1", senderUsername |-> "a", receiverUsername |-> "",  message |-> "hi"],
    [conversationId |-> "u1", senderUsername |-> "a", receiverUsername |-> "b", message |-> ""] }
\* Arguments of GET /api/messages/conversation/:conversationId.
RoomNames == {"u1", "s2"}
\* Arguments of GET /api/messages/list/:senderUsername.
ListUsers == {"a", "b"}
\* Arguments of joinConversation.
JoinNames == {"u1"}
\* The value of a field that an object does not have, and what
\* Array.prototype.find returns when no element passes.
Undefined == "(undefined)"
\* The signaling events.
SignalNames == {"offer", "answer", "ice-candidate"}
\* Payloads of offer / answer / ice-candidate; the second has no targetId.
SignalPayloads ==
  { [receiverId |-> "s2", callerId |-> "s1", targetId |-> "u1", sdp |-> "x"],
    [receiverId |-> "s1", callerId |-> "s2", targetId |-> Undefined, sdp |-> "y"] }

VARIABLES
  conn,           \* socket id -> "new" | "open" | "closed"
  rooms,          \* socket id -> the rooms the socket is in (the adapter's sids)
  conversations,  \* the Conversation collection, in natural (insertion) order
  messages,       \* the Message collection, in natural (insertion) order
  inflight,       \* the HTTP requests suspended at an await
  uuids,          \* number of calls of uuidv4() so far
  msgIds,         \* number of Message documents constructed so far
  clock,          \* the last reading of Date.now()
  up,             \* the Node process is running (once it has exited, nothing is handled)
  handled,        \* the signaling event the last step handled
  response,       \* the HTTP response the last step sent
  delivered,      \* socket id -> the events the last step delivered to it
  joinedBy,       \* history: socket id -> the rooms it asked to join
  firstId,        \* history: participant set -> the first conversationId answered
  lastAcked,      \* history: conversationId -> _id of the last message answered with 200
  lastSaved,      \* history: conversationId -> _id of the last message saved
  emits           \* history: message _id -> number of newMessage broadcasts

vars == <<conn, rooms, conversations, messages, inflight, uuids, msgIds, clock, up,
          handled, response, delivered, joinedBy, firstId, lastAcked, lastSaved, emits>>

sockVars == <<conn, rooms, joinedBy>>
dbVars == <<conversations, messages>>
httpVars == <<inflight, uuids, msgIds, firstId, lastAcked, lastSaved, emits>>

NoEvent == [name |-> "none"]
\* A database operation of the route `op` was rejected.
StorageFailed(op) == [name |-> "storageFailure", op |-> op]
NoResponse == [status |-> 0]
NoDelivery == [k \in Sockets |-> <<>>]
Pairs == { {b.senderUsername, b.receiverUsername} : b \in ConversationBodies }

\* ------------------------------------------------------- Socket.IO rooms
\* io.on('connection'): the socket is in the room named by its own id.
InitialRooms(k) == {k}

\* A join that would leave the rooms the socket was in.
SocketJoinOnly(rs, conversationId) == {conversationId}

\* socket.join(conversationId).
SocketJoin(rs, conversationId) == rs \cup {conversationId}

\* A server that would keep a disconnected socket in its rooms.
LeaveNone(rs) == rs

\* What Socket.IO does with the rooms of a socket that disconnects: the handler of
\* 'disconnect' itself only logs.
LeaveAll(rs) == {}

\* A broadcast that would stop at the first socket of the room.
IoToFirst(room) ==
  LET members == { k \in Sockets : room \in rooms[k] }
  IN IF members = {} THEN {} ELSE { CHOOSE k \in members : TRUE }

\* io.to(room): the sockets in the room.
IoTo(room) == { k \in Sockets : room \in rooms[k] }

\* A relay that would not except the sender.
SocketToAll(from, room) == IoTo(room)

\* socket.to(room): the sockets in the room, but the socket itself.
SocketTo(from, room) == IoTo(room) \ {from}

\* .emit(name, data): one event to each socket addressed.
Emit(targets, name, data) ==
  [k \in Sockets |-> IF k \in targets THEN << [name |-> name, data |-> data] >> ELSE <<>>]

\* An offer handler that would read the caller's address.
OfferTargetCaller(data) == data.callerId

\* The field each signaling handler reads the target from.
OfferTarget(data) == data.receiverId
AnswerTarget(data) == data.callerId
IceCandidateTarget(data) == data.targetId

Quiet == /\ response' = NoResponse
         /\ delivered' = NoDelivery

Connect(k) ==
  /\ up
  /\ conn[k] = "new"
  /\ conn' = [conn EXCEPT ![k] = "open"]
  /\ rooms' = [rooms EXCEPT ![k] = InitialRooms(k)]
  /\ handled' = NoEvent
  /\ Quiet
  /\ UNCHANGED <<joinedBy, dbVars, httpVars, clock, up>>

JoinConversation(k, conversationId) ==
  /\ up
  /\ conn[k] = "open"
  /\ rooms' = [rooms EXCEPT ![k] = SocketJoin(@, conversationId)]
  /\ joinedBy' = [joinedBy EXCEPT ![k] = @ \cup {conversationId}]
  /\ handled' = [name |-> "joinConversation", from |-> k, room |-> conversationId,
                 already |-> conversationId \in rooms[k]]
  /\ Quiet
  /\ UNCHANGED <<conn, dbVars, httpVars, clock, up>>

Relay(k, name, target, data) ==
  /\ up
  /\ conn[k] = "open"
  /\ delivered' = Emit(SocketTo(k, target), name, data)
  /\ handled' = [name |-> name, from |-> k, data |-> data, target |-> target]
  /\ response' = NoResponse
  /\ UNCHANGED <<sockVars, dbVars, httpVars, clock, up>>

Offer(k, data) == Relay(k, "offer", OfferTarget(data), data)

Answer(k, data) == Relay(k, "answer", AnswerTarget(data), data)

IceCandidate(k, data) == Relay(k, "ice-candidate", IceCandidateTarget(data), data)

\* Lines 152, 158, 164: the event arrives with no payload, data is undefined and
\* reading its field throws; nothing catches what an event handler throws, and the
\* process stops. The variables keep what the process held when it stopped.
RelayWithoutPayload(k, name) ==
  /\ up
  /\ conn[k] = "open"
  /\ up' = FALSE
  /\ handled' = [name |-> "uncaughtException", event |-> name]
  /\ Quiet
  /\ UNCHANGED <<sockVars, dbVars, httpVars, clock>>

Disconnect(k) ==
  /\ up
  /\ conn[k] = "open"
  /\ conn' = [conn EXCEPT ![k] = "closed"]
  /\ rooms' = [rooms EXCEPT ![k] = LeaveAll(@)]
  /\ handled' = NoEvent
  /\ Quiet
  /\ UNCHANGED <<joinedBy, dbVars, httpVars, clock, up>>

\* --------------------------------------------------------- the database
Range(f) == { f[i] : i \in DOMAIN f }

Min(S) == CHOOSE x \in S : \A y \in S : x <= y

NoConversation == [conversationId |-> "", participants |-> <<>>]

\* A filter that would match the stored order only.
MatchesInOrder(conversation, senderUsername, receiverUsername) ==
  conversation.participants = <<senderUsername, receiverUsername>>

\* { participants: { $all: [senderUsername, receiverUsername] } }
MatchesAll(conversation, senderUsername, receiverUsername) ==
  {senderUsername, receiverUsername} \subseteq Range(conversation.participants)

\* Conversation.findOne(filter): the first match in natural order, or null.
FindOne(senderUsername, receiverUsername) ==
  LET hits == { i \in 1..Len(conversations) :
                  MatchesAll(conversations[i], senderUsername, receiverUsername) }
  IN IF hits = {} THEN NoConversation ELSE conversations[Min(hits)]

\* new Conversation({ participants: [senderUsername, receiverUsername], conversationId })
NewConversation(senderUsername, receiverUsername, conversationId) ==
  [conversationId |-> conversationId, participants |-> <<senderUsername, receiverUsername>>]

\* conversationId: { unique: true }: the index refuses a second document with the id.
UniqueIndexAllows(conversationId) ==
  \A i \in 1..Len(conversations) : conversations[i].conversationId # conversationId

\* new Message({ ..., whosend: senderUsername }), timestamp defaulting to Date.now.
NewMessage(id, body, now) ==
  [_id |-> id,
   conversationId |-> body.conversationId,
   senderUsername |-> body.senderUsername,
   receiverUsername |-> body.receiverUsername,
   message |-> body.message,
   whosend |-> body.senderUsername,
   timestamp |-> now]

\* A save that would replace what the collection holds.
InsertReplacing(collection, document) == <<document>>

\* document.save(): the collection with the document inserted.
Insert(collection, document) == Append(collection, document)

\* A query that would return the newest insertion first.
FindNewestFirst(conversationId) ==
  LET found == SelectSeq(messages, LAMBDA m : m.conversationId = conversationId)
  IN [i \in 1..Len(found) |-> found[Len(found) + 1 - i]]

\* A query that would drop its filter.
FindAll(conversationId) == messages

\* Message.find({ conversationId }): the matches in natural order.
Find(conversationId) ==
  SelectSeq(messages, LAMBDA m : m.conversationId = conversationId)

\* ------------------------------------------------- POST /api/conversations
\* A validation that would test the sender only.
SenderMissing(body) == body.senderUsername = ""

ConversationBodyInvalid(body) ==
  body.senderUsername = "" \/ body.receiverUsername = ""

Pending(op, pc) == { r \in BagToSet(inflight) : r.op = op /\ r.pc = pc }

\* The bound on the documents: those constructed, and those that the lookups
\* still pending may lead to.
DocsLeft == uuids + msgIds + Cardinality(Pending("conversation", "findOne")) < MaxDocs

Suspend(r) == inflight (+) SetToBag({r})

Resume(r) == inflight (-) SetToBag({r})

\* Lines 45-55: validation, then the lookup is issued.
PostConversation(body) ==
  /\ up
  /\ handled' = NoEvent
  /\ delivered' = NoDelivery
  /\ IF ConversationBodyInvalid(body)
       THEN /\ response' = [status |-> 400, op |-> "postConversation", body |-> body]
            /\ UNCHANGED inflight
       ELSE /\ BagCardinality(inflight) < MaxInflight
            /\ \/ FindOne(body.senderUsername, body.receiverUsername) # NoConversation
               \/ DocsLeft
            /\ inflight' = Suspend([op |-> "conversation", pc |-> "findOne", body |-> body])
            /\ response' = NoResponse
  /\ UNCHANGED <<sockVars, dbVars, uuids, msgIds, firstId, lastAcked, lastSaved, emits, clock, up>>

RecordFirst(body, conversationId) ==
  LET pair == {body.senderUsername, body.receiverUsername}
  IN IF firstId[pair] = "" THEN [firstId EXCEPT ![pair] = conversationId] ELSE firstId

\* Lines 53-58, 71-74: the lookup finds a conversation, whose id is the answer.
ConversationExists(r) ==
  LET conversation == FindOne(r.body.senderUsername, r.body.receiverUsername) IN
  /\ up
  /\ r \in Pending("conversation", "findOne")
  /\ conversation # NoConversation
  /\ inflight' = Resume(r)
  /\ response' = [status |-> 200, op |-> "postConversation", body |-> r.body,
                  conversationId |-> conversation.conversationId, created |-> FALSE]
  /\ firstId' = RecordFirst(r.body, conversation.conversationId)
  /\ handled' = NoEvent
  /\ delivered' = NoDelivery
  /\ UNCHANGED <<sockVars, dbVars, uuids, msgIds, lastAcked, lastSaved, emits, clock, up>>

\* Lines 53-66: the lookup finds none; a new id is drawn and the save is issued.
ConversationCreate(r) ==
  /\ up
  /\ r \in Pending("conversation", "findOne")
  /\ FindOne(r.body.senderUsername, r.body.receiverUsername) = NoConversation
  /\ uuids < Len(UUIDS)
  /\ uuids' = uuids + 1
  /\ inflight' = Resume(r) (+) SetToBag({[op |-> "conversation", pc |-> "save", body |-> r.body,
                                           conversationId |-> UUIDS[uuids + 1]]})
  /\ handled' = NoEvent
  /\ Quiet
  /\ UNCHANGED <<sockVars, dbVars, msgIds, firstId, lastAcked, lastSaved, emits, clock, up>>

\* What Node does with a promise rejection that nothing handles: a warning (the
\* process goes on) or, by default since Node 15, an uncaught exception (it exits).
UnhandledRejections == {"warn", "throw"}

\* Line 53: the lookup fails. No try encloses the await: the rejection leaves the
\* handler, no response is sent, and the rejection is unhandled.
ConversationFindFailed(r) ==
  /\ up
  /\ r \in Pending("conversation", "findOne")
  /\ inflight' = Resume(r)
  /\ handled' = StorageFailed("postConversation")
  /\ \E mode \in UnhandledRejections : up' = (mode = "warn")
  /\ Quiet
  /\ UNCHANGED <<sockVars, dbVars, uuids, msgIds, firstId, lastAcked, lastSaved, emits, clock>>

\* Lines 66-67: the save succeeds.
ConversationSaved(r) ==
  /\ up
  /\ r \in Pending("conversation", "save")
  /\ UniqueIndexAllows(r.conversationId)
  /\ conversations' = Insert(conversations,
        NewConversation(r.body.senderUsername, r.body.receiverUsername, r.conversationId))
  /\ inflight' = Resume(r)
  /\ response' = [status |-> 200, op |-> "postConversation", body |-> r.body,
                  conversationId |-> r.conversationId, created |-> TRUE]
  /\ firstId' = RecordFirst(r.body, r.conversationId)
  /\ handled' = NoEvent
  /\ delivered' = NoDelivery
  /\ UNCHANGED <<sockVars, messages, uuids, msgIds, lastAcked, lastSaved, emits, clock, up>>

\* Lines 68-70: the save fails.
ConversationSaveFailed(r) ==
  /\ up
  /\ r \in Pending("conversation", "save")
  /\ inflight' = Resume(r)
  /\ response' = [status |-> 500, op |-> "postConversation", body |-> r.body]
  /\ handled' = StorageFailed("postConversation")
  /\ delivered' = NoDelivery
  /\ UNCHANGED <<sockVars, dbVars, uuids, msgIds, firstId, lastAcked, lastSaved, emits, clock, up>>

\* ------------------------------------------------------ POST /api/messages
\* Date.now(): the last reading, or later.
Now == { t \in clock..(clock + 1) : t <= MaxClock }

MessageBodyInvalid(body) ==
  \/ body.conversationId = ""
  \/ body.senderUsername = ""
  \/ body.receiverUsername = ""
  \/ body.message = ""

\* Lines 119-129: validation, then the message is constructed and its save issued.
PostMessage(body) ==
  /\ up
  /\ handled' = NoEvent
  /\ delivered' = NoDelivery
  /\ IF MessageBodyInvalid(body)
       THEN /\ response' = [status |-> 400, op |-> "postMessage", body |-> body]
            /\ UNCHANGED <<inflight, msgIds, clock>>
       ELSE /\ BagCardinality(inflight) < MaxInflight
            /\ DocsLeft
            /\ msgIds' = msgIds + 1
            /\ \E now \in Now : 
                 /\ clock' = now
                 /\ inflight' = Suspend([op |-> "message", pc |-> "save", body |-> body,
                                         began |-> clock,
                                         membersAtStart |-> IoTo(body.conversationId),
                                         newMessage |-> NewMessage(msgIds + 1, body, now)])
            /\ response' = NoResponse
  /\ UNCHANGED <<sockVars, dbVars, uuids, firstId, lastAcked, lastSaved, emits, up>>

\* Line 129: the database inserts the document; the handler has not resumed yet.
MessageSaved(r) ==
  /\ up
  /\ r \in Pending("message", "save")
  /\ messages' = Insert(messages, r.newMessage)
  /\ inflight' = Resume(r) (+) SetToBag({[r EXCEPT !.pc = "saved"]})
  /\ lastSaved' = [lastSaved EXCEPT ![r.newMessage.conversationId] = r.newMessage._id]
  /\ handled' = NoEvent
  /\ Quiet
  /\ UNCHANGED <<sockVars, conversations, uuids, msgIds, firstId, lastAcked, emits, clock, up>>

\* A broadcast that would address the sockets that were in the room when the request
\* arrived.
MembersAtStart(r) == r.membersAtStart

\* Line 132, io.to(conversationId): the room is read when the handler resumes.
BroadcastTargets(r) == IoTo(r.newMessage.conversationId)

\* Lines 131-134: the handler resumes after the save: the broadcast, then the answer.
MessageEmitted(r) ==
  /\ up
  /\ r \in Pending("message", "saved")
  /\ delivered' = Emit(BroadcastTargets(r), "newMessage", r.newMessage)
  /\ response' = [status |-> 200, op |-> "postMessage", body |-> r.body,
                  message |-> r.newMessage, began |-> r.began,
                  membersAtStart |-> r.membersAtStart]
  /\ inflight' = Resume(r)
  /\ lastAcked' = [lastAcked EXCEPT ![r.newMessage.conversationId] = r.newMessage._id]
  /\ emits' = [emits EXCEPT ![r.newMessage._id] = @ + 1]
  /\ handled' = NoEvent
  /\ UNCHANGED <<sockVars, dbVars, uuids, msgIds, firstId, lastSaved, clock, up>>

\* Lines 135-137: the save fails.
MessageSaveFailed(r) ==
  /\ up
  /\ r \in Pending("message", "save")
  /\ inflight' = Resume(r)
  /\ response' = [status |-> 500, op |-> "postMessage", body |-> r.body]
  /\ handled' = StorageFailed("postMessage")
  /\ delivered' = NoDelivery
  /\ UNCHANGED <<sockVars, dbVars, uuids, msgIds, firstId, lastAcked, lastSaved, emits, clock, up>>

\* ------------------------- GET /api/messages/conversation/:conversationId
\* Lines 78-82: the query reads the collection and its result is the answer.
GetMessages(conversationId) ==
  /\ up
  /\ response' = [status |-> 200, op |-> "getMessages", conversationId |-> conversationId,
                  messages |-> Find(conversationId)]
  /\ handled' = NoEvent
  /\ delivered' = NoDelivery
  /\ UNCHANGED <<sockVars, dbVars, httpVars, clock, up>>

\* Lines 83-85: the query fails.
GetMessagesFailed(conversationId) ==
  /\ up
  /\ response' = [status |-> 500, op |-> "getMessages", conversationId |-> conversationId]
  /\ handled' = StorageFailed("getMessages")
  /\ delivered' = NoDelivery
  /\ UNCHANGED <<sockVars, dbVars, httpVars, clock, up>>

\* --------------------------------------- GET /api/messages/list/:senderUsername
\* Conversation.find({ participants: senderUsername }, ...): the conversations whose
\* participants array holds the name, in natural order.
FindByParticipant(senderUsername) ==
  SelectSeq(conversations, LAMBDA c : senderUsername \in Range(c.participants))

\* convo.participants.find(participant => participant !== senderUsername)
FindOther(participants, senderUsername) ==
  LET others == { i \in 1..Len(participants) : participants[i] # senderUsername }
  IN IF others = {} THEN Undefined ELSE participants[Min(others)]

\* userslist.map(convo => ({ conversationId, receiverUsername }))
FormattedList(senderUsername) ==
  LET userslist == FindByParticipant(senderUsername)
  IN [i \in 1..Len(userslist) |->
        [conversationId |-> userslist[i].conversationId,
         receiverUsername |-> FindOther(userslist[i].participants, senderUsername)]]

\* Lines 89-109: the query reads the collection and the mapped list is the answer.
GetConversationList(senderUsername) ==
  /\ up
  /\ response' = [status |-> 200, op |-> "getConversationList",
                  senderUsername |-> senderUsername, list |-> FormattedList(senderUsername)]
  /\ handled' = NoEvent
  /\ delivered' = NoDelivery
  /\ UNCHANGED <<sockVars, dbVars, httpVars, clock, up>>

\* Lines 110-113: the query fails.
GetConversationListFailed ==
  /\ up
  /\ response' = [status |-> 500, op |-> "getConversationList"]
  /\ handled' = StorageFailed("getConversationList")
  /\ delivered' = NoDelivery
  /\ UNCHANGED <<sockVars, dbVars, httpVars, clock, up>>

\* ------------------------------------------------------- specifications
Init ==
  /\ conn = [k \in Sockets |-> "new"]
  /\ rooms = [k \in Sockets |-> {}]
  /\ conversations = <<>>
  /\ messages = <<>>
  /\ inflight = EmptyBag
  /\ uuids = 0
  /\ msgIds = 0
  /\ clock = 0
  /\ up = TRUE
  /\ handled = NoEvent
  /\ response = NoResponse
  /\ delivered = NoDelivery
  /\ joinedBy = [k \in Sockets |-> {}]
  /\ firstId = [p \in Pairs |-> ""]
  /\ lastAcked = [c \in RoomNames |-> 0]
  /\ lastSaved = [c \in RoomNames |-> 0]
  /\ emits = [i \in 1..MaxDocs |-> 0]

SocketEvent ==
  \/ \E k \in Sockets : Connect(k)
  \/ \E k \in Sockets, c \in JoinNames : JoinConversation(k, c)
  \/ \E k \in Sockets, data \in SignalPayloads : Offer(k, data)
  \/ \E k \in Sockets, data \in SignalPayloads : Answer(k, data)
  \/ \E k \in Sockets, data \in SignalPayloads : IceCandidate(k, data)
  \/ \E k \in Sockets, name \in SignalNames : RelayWithoutPayload(k, name)
  \/ \E k \in Sockets : Disconnect(k)

Request ==
  \/ \E body \in ConversationBodies : PostConversation(body)
  \/ \E body \in MessageBodies : PostMessage(body)
  \/ \E c \in RoomNames : GetMessages(c)
  \/ \E u \in ListUsers : GetConversationList(u)

Continuation ==
  \/ \E r \in BagToSet(inflight) : ConversationExists(r)
  \/ \E r \in BagToSet(inflight) : ConversationCreate(r)
  \/ \E r \in BagToSet(inflight) : ConversationSaved(r)
  \/ \E r \in BagToSet(inflight) : MessageSaved(r)
  \/ \E r \in BagToSet(inflight) : MessageEmitted(r)

StorageFailure ==
  \/ \E r \in BagToSet(inflight) : ConversationFindFailed(r)
  \/ \E r \in BagToSet(inflight) : ConversationSaveFailed(r)
  \/ \E r \in BagToSet(inflight) : MessageSaveFailed(r)
  \/ \E c \in RoomNames : GetMessagesFailed(c)
  \/ GetConversationListFailed

Next == SocketEvent \/ Request \/ Continuation \/ StorageFailure

Spec == Init /\ [][Next]_vars

\* The same server when the HTTP requests run one after another (a request is sent
\* only once the one before it is answered) and the storage does not fail.
SequentialNext ==
  \/ SocketEvent
  \/ (inflight = EmptyBag /\ Request)
  \/ Continuation

SequentialSpec == Init /\ [][SequentialNext]_vars

\* ---------------------------------------------------------------- claims
ParticipantPair(conversation) == Range(conversation.participants)

BodyPair(body) == {body.senderUsername, body.receiverUsername}

\* The target address of a signaling event, by the event's kind.
TargetAddress(name, data) ==
  CASE name = "offer" -> data.receiverId
    [] name = "answer" -> data.callerId
    [] name = "ice-candidate" -> data.targetId

Answered(op, status) == response.status = status /\ response.op = op

NewMessageEvent(m) == [name |-> "newMessage", data |-> m]

\* C1: the Conversation collection never holds two records with the same unordered
\* pair of participants, whatever the interleaving of create-or-get requests.
C1_AtMostOnePerPair ==
  \A i, j \in 1..Len(conversations) :
    i # j => ParticipantPair(conversations[i]) # ParticipantPair(conversations[j])

\* C2: when the requests run one after another and the storage does not fail, every
\* answer to a create-or-get request for a pair carries the conversationId first
\* answered for that pair, in either argument order, and once the pair has been
\* answered a request for it writes no record.
C2_SameIdForPair ==
  [][ (response'.status = 200 /\ response'.op = "postConversation") =>
        LET pair == BodyPair(response'.body) IN
          /\ response'.conversationId = firstId'[pair]
          /\ firstId[pair] # "" =>
               /\ response'.conversationId = firstId[pair]
               /\ ~response'.created
               /\ conversations' = conversations ]_vars

\* C2 witness: a request in the order (b, a) answered with the id of the conversation
\* stored as [a, b].
C2_Witness ==
  /\ Answered("postConversation", 200)
  /\ response.body = [senderUsername |-> "b", receiverUsername |-> "a"]
  /\ ~response.created
  /\ Len(conversations) > 0
  /\ conversations[1].participants = <<"a", "b">>
  /\ response.conversationId = conversations[1].conversationId

\* C3: a newMessage broadcast to room c reaches every connected socket that asked to
\* join c, and reaches no socket that never asked to join c.
C3_BroadcastOnlyToJoined ==
  Answered("postMessage", 200) =>
    \A k \in Sockets :
      LET c == response.message.conversationId IN
        /\ (c \in joinedBy[k] /\ conn[k] = "open") =>
              delivered[k] = << NewMessageEvent(response.message) >>
        /\ c \notin joinedBy[k] => delivered[k] = <<>>

\* C4: a send-message request that persisted its message is answered together with
\* exactly one newMessage event, carrying the stored message, to each socket in the
\* room named by its conversationId, and with none to the others; each stored message
\* is broadcast once, when its request resumes; a request answered 400 or 500, and any
\* other step, delivers no newMessage.
C4_OneNewMessagePerSave ==
  /\ Answered("postMessage", 200) =>
       /\ \E i \in 1..Len(messages) : messages[i] = response.message
       /\ \A k \in Sockets :
            delivered[k] = IF response.message.conversationId \in rooms[k]
                             THEN << NewMessageEvent(response.message) >>
                             ELSE <<>>
  /\ \A k \in Sockets : \A i \in 1..Len(delivered[k]) :
       delivered[k][i].name = "newMessage" => Answered("postMessage", 200)
  /\ \A i \in 1..Len(messages) :
       emits[messages[i]._id] =
         IF \E r \in Pending("message", "saved") : r.newMessage = messages[i] THEN 0 ELSE 1
  /\ \A id \in DOMAIN emits :
       (\A i \in 1..Len(messages) : messages[i]._id # id) => emits[id] = 0

\* C4 witness: a message saved and broadcast to a room that holds both sockets.
C4_Witness ==
  /\ Answered("postMessage", 200)
  /\ \A k \in Sockets : delivered[k] = << NewMessageEvent(response.message) >>

\* C5: a disconnected socket is in no room and is delivered nothing.
C5_NothingAfterDisconnect ==
  \A k \in Sockets :
    conn[k] = "closed" => rooms[k] = {} /\ delivered[k] = <<>>

\* C5 witness: a message broadcast to a room that a socket had joined before it
\* disconnected reaches the socket still in the room.
C5_Witness ==
  /\ Answered("postMessage", 200)
  /\ \E k, other \in Sockets :
       /\ conn[k] = "closed"
       /\ response.message.conversationId \in joinedBy[k]
       /\ delivered[other] # <<>>

C7_RelayReachesOnlyTarget ==
  handled.name \in SignalNames =>
    \A k \in Sockets :
      k # TargetAddress(handled.name, handled.data) => delivered[k] = <<>>

\* C8: list-messages answers the conversation's messages in ascending order of
\* their timestamps.
C8_ListedByTimestamp ==
  Answered("getMessages", 200) =>
    \A i, j \in 1..Len(response.messages) :
      i < j => response.messages[i].timestamp <= response.messages[j].timestamp

\* C9 as stated: once a send-message request for c is answered 200, a list-messages
\* query for c ends with the message of the last such answer.
C9_ListEndsWithAcked ==
  Answered("getMessages", 200) =>
    LET c == response.conversationId IN
      lastAcked[c] # 0 =>
        /\ response.messages # <<>>
        /\ response.messages[Len(response.messages)]._id = lastAcked[c]

\* C9 as amended: once a send-message request for c is answered 200, a list-messages
\* query for c ends with the message of the last such answer when no message for c
\* was saved after it; the message listed is the one answered, and its timestamp is
\* not earlier than the clock at the start of its request.
C9_ListEndsWithAckedIfLastSaved ==
  /\ Answered("getMessages", 200) =>
       LET c == response.conversationId IN
         (lastAcked[c] # 0 /\ lastSaved[c] = lastAcked[c]) =>
           /\ response.messages # <<>>
           /\ response.messages[Len(response.messages)]._id = lastAcked[c]
  /\ Answered("postMessage", 200) =>
       /\ response.message.timestamp >= response.began
       /\ \E i \in 1..Len(messages) : messages[i] = response.message

\* C9 witness: a list of two messages that ends with the last one answered.
C9_Witness ==
  /\ Answered("getMessages", 200)
  /\ Len(response.messages) = 2
  /\ lastAcked[response.conversationId] = response.messages[2]._id
  /\ lastSaved[response.conversationId] = response.messages[2]._id

\* C10: a create-or-get or send-message request with a missing or empty field is
\* never suspended for the database: it is answered 400, in a step that changes
\* neither collection nor any room.
C10_InvalidAnswered400 ==
  [][ /\ \A r \in BagToSet(inflight') :
           /\ r.op = "conversation" => r.body.senderUsername # "" /\ r.body.receiverUsername # ""
           /\ r.op = "message" => /\ r.body.conversationId # "" /\ r.body.senderUsername # ""
                                  /\ r.body.receiverUsername # "" /\ r.body.message # ""
      /\ (response'.status # 0 /\ response'.op \in {"postConversation", "postMessage"}
            /\ \E f \in DOMAIN response'.body : response'.body[f] = "") =>
           response'.status = 400
      /\ response'.status = 400 =>
           /\ \E f \in DOMAIN response'.body : response'.body[f] = ""
           /\ UNCHANGED <<conversations, messages, rooms, inflight>> ]_vars

\* C10 witness: a 400 answer while a conversation, a message and a room membership exist.
C10_Witness ==
  /\ response.status = 400
  /\ conversations # <<>>
  /\ messages # <<>>
  /\ \E k \in Sockets : "u1" \in rooms[k]

\* C11: the step in which a database operation of a request is rejected answers the
\* request with 500.
C11_StorageFailureAnswered500 ==
  handled.name = "storageFailure" =>
    response.status = 500 /\ response.op = handled.op

\* The other entry of a participant pair that holds the user.
OtherEntry(participants, user) ==
  IF participants[1] = user THEN participants[2] ELSE participants[1]

\* C12: list-conversations-for-user answers one entry for each stored Conversation
\* that has the user as a participant, and no other: the conversation's id with the
\* other entry of its participant pair (the user itself for a pair [u, u]).
C12_ListPairsIdWithOther ==
  Answered("getConversationList", 200) =>
    LET u == response.senderUsername
        mine == { i \in 1..Len(conversations) : u \in Range(conversations[i].participants) }
    IN /\ Len(response.list) = Cardinality(mine)
       /\ Range(response.list) =
            { [conversationId |-> conversations[i].conversationId,
               receiverUsername |-> OtherEntry(conversations[i].participants, u)] : i \in mine }

C14_MessagesReferenceConversation ==
  \A i \in 1..Len(messages) :
    \E j \in 1..Len(conversations) :
      conversations[j].conversationId = messages[i].conversationId

\* C15: a create-or-get request is answered with the id of a Conversation already
\* stored only if that Conversation's participant set is the request's pair, and
\* two different pairs are never answered with the same conversationId.
C15_ExistingIdOnlyForSamePair ==
  /\ (Answered("postConversation", 200) /\ ~response.created) =>
       \A j \in 1..Len(conversations) :
         conversations[j].conversationId = response.conversationId =>
           ParticipantPair(conversations[j]) = BodyPair(response.body)
  /\ \A p, q \in Pairs : (p # q /\ firstId[p] # "") => firstId[p] # firstId[q]

\* C16: the sockets that receive a newMessage are the members of the room when the
\* broadcast is issued: a socket that joined after the request arrived receives it, a
\* socket that was in the room when the request arrived and has disconnected does not.
C16_RecipientsAreMembersAtBroadcast ==
  Answered("postMessage", 200) =>
    LET room == response.message.conversationId
        received == { k \in Sockets : delivered[k] # <<>> }
    IN /\ received = { k \in Sockets : room \in rooms[k] }
       /\ \A k \in Sockets \ response.membersAtStart :
            room \in rooms[k] => delivered[k] = << NewMessageEvent(response.message) >>
       /\ \A k \in response.membersAtStart :
            conn[k] = "closed" => delivered[k] = <<>>

\* C16 witness: while the save was in flight one socket joined the room and another,
\* a member when the request arrived, disconnected.
C16_Witness ==
  /\ Answered("postMessage", 200)
  /\ \E k \in Sockets \ response.membersAtStart : delivered[k] # <<>>
  /\ \E k \in response.membersAtStart : conn[k] = "closed" /\ delivered[k] = <<>>

\* The last step was a request that failed or a signaling event that came without
\* its payload or without its target field.
Failed ==
  \/ response.status \in {400, 500}
  \/ handled.name \in {"storageFailure", "uncaughtException"}
  \/ handled.name \in SignalNames /\ handled.target = Undefined

\* C17: a failed request, and a signaling event without payload or without target
\* field, leaves every socket's rooms as they were and leaves the server running.
C17_FailureLeavesServerRunning ==
  [][Failed' => (rooms' = rooms /\ up')]_vars

\* The sequence `after` begins with the whole of `before`.
Extends(before, after) ==
  /\ Len(before) <= Len(after)
  /\ \A i \in 1..Len(before) : after[i] = before[i]

\* C18: every step leaves each stored Conversation and each stored Message in place
\* with the fields it had; a step only appends.
C18_StoresOnlyAccumulate ==
  [][Extends(conversations, conversations') /\ Extends(messages, messages')]_vars

\* C18 witness: a message answered while a conversation stored before is in place.
C18_Witness ==
  /\ Answered("postMessage", 200)
  /\ conversations # <<>>
  /\ response.message = messages[Len(messages)]

\* C19: a join of socket k to room c puts k in c, changes no other socket's rooms
\* and none of k's other rooms, and changes nothing when k is in c already; no step
\* delivers more than one event to a socket.
C19_JoinIdempotentAndLocal ==
  /\ [][handled'.name = "joinConversation" =>
          LET k == handled'.from
              c == handled'.room
          IN /\ c \in rooms'[k]
             /\ rooms'[k] \ {c} = rooms[k] \ {c}
             /\ \A j \in Sockets \ {k} : rooms'[j] = rooms[j]
             /\ c \in rooms[k] => rooms' = rooms]_vars
  /\ [](\A k \in Sockets : Len(delivered[k]) <= 1)

\* C19 witness: a socket joins a room it is in already.
C19_Witness ==
  /\ handled.name = "joinConversation"
  /\ handled.already
  /\ rooms[handled.from] = InitialRooms(handled.from) \cup {handled.room}

\* C20: a signaling event is never delivered to the socket that sent it and changes
\* neither the rooms nor the stores; a newMessage broadcast excepts no member of the
\* room.
C20_RelayNeverBackToSender ==
  /\ [][handled'.name \in SignalNames =>
          /\ delivered'[handled'.from] = <<>>
          /\ rooms' = rooms
          /\ conversations' = conversations
          /\ messages' = messages]_vars
  /\ [](Answered("postMessage", 200) =>
          \A k \in Sockets :
            response.message.conversationId \in rooms[k] => delivered[k] # <<>>)

\* C20 witness: a signaling event addressed to a room its sender is in reaches
\* another member; one addressed to the sender's own id reaches nobody.
C20_Witness ==
  /\ handled.name \in SignalNames
  /\ handled.target \in rooms[handled.from]
  /\ \/ handled.target = handled.from
     \/ \E j \in Sockets \ {handled.from} : delivered[j] # <<>>
====
